---- MODULE Spec2Model ----
(***************************************************************************)
(* Jobly data-access layer: the partial-update SQL helper                  *)
(* (helpers/sql.js), the Job and Company models (models/job.js,            *)
(* models/company.js), the database they query, and the self-or-admin      *)
(* routes of routes/users.js.                                              *)
(*                                                                         *)
(* Strings are sequences of one-character strings.  A JavaScript or SQL    *)
(* value is a record [t, n, s]; SQL text is a sequence of tokens.          *)
(***************************************************************************)
EXTENDS Integers, Sequences, FiniteSets, TLC

VARIABLES
  jobs,          \* rows of the jobs table
  nextId,        \* next value of the jobs id sequence
  companies,     \* rows of the companies table
  call,          \* the latest call of a model operation and its outcome
  creating,      \* Company.create calls between their two queries
  users,         \* rows of the users table
  applications,  \* rows of the applications table
  http           \* the latest request to a users route and its response

vars == <<jobs, nextId, companies, call, creating, users, applications, http>>

(***************************************************************************)
(* Bounds of the model.                                                    *)
(***************************************************************************)
MaxKeys == 2            \* longest update mapping given to the helper
MaxJobId == 2           \* ids the jobs sequence hands out
MaxSalary == 2          \* largest salary bound of a job filter
MaxEmployees == 2       \* largest employee bound of a company filter

(***************************************************************************)
(* Values.                                                                 *)
(***************************************************************************)
Undef == [t |-> "undef", n |-> 0, s |-> <<>>]
Null == [t |-> "null", n |-> 0, s |-> <<>>]
Num(n) == [t |-> "num", n |-> n, s |-> <<>>]
Str(s) == [t |-> "str", n |-> 0, s |-> s]
Bool(b) == [t |-> "bool", n |-> IF b THEN 1 ELSE 0, s |-> <<>>]

\* JavaScript ToBoolean
Truthy(v) ==
  CASE v.t = "undef" -> FALSE
    [] v.t = "null" -> FALSE
    [] v.t = "bool" -> v.n = 1
    [] v.t = "num" -> v.n # 0
    [] v.t = "str" -> v.s # <<>>

\* JavaScript a > b on two numbers
JsGreater(a, b) == a.n > b.n

(***************************************************************************)
(* SQL text.                                                               *)
(***************************************************************************)
Kw(s) == [k |-> "kw", s |-> s, n |-> 0]         \* keyword
Id(s) == [k |-> "id", s |-> s, n |-> 0]         \* bare identifier
QId(s) == [k |-> "qid", s |-> s, n |-> 0]       \* "quoted" identifier
Op(s) == [k |-> "op", s |-> s, n |-> 0]         \* comparison operator
Ph(n) == [k |-> "ph", s |-> "$", n |-> n]       \* placeholder $n
Lit(n) == [k |-> "lit", s |-> "", n |-> n]      \* numeric literal
Comma == [k |-> "sep", s |-> ", ", n |-> 0]

RECURSIVE Join(_, _)
\* Array.prototype.join on an array of token sequences
Join(parts, sep) ==
  IF parts = <<>> THEN <<>>
  ELSE IF Len(parts) = 1 THEN parts[1]
  ELSE parts[1] \o <<sep>> \o Join(Tail(parts), sep)

(***************************************************************************)
(* helpers/sql.js                                                          *)
(***************************************************************************)
NoTable == [x \in {} |-> ""]
NoUpdate == [setCols |-> <<>>, values |-> <<>>]

\* an object literal is a sequence of <<key, value>> pairs with distinct keys
ObjectKeys(obj) == [i \in 1..Len(obj) |-> obj[i][1]]
ObjectValues(obj) == [i \in 1..Len(obj) |-> obj[i][2]]

\* the lookup forgotten: the key is always used as the column name
ColName_NoLookup(jsToSql, colName) == colName

\* jsToSql[colName] || colName
ColName(jsToSql, colName) ==
  IF colName \in DOMAIN jsToSql /\ jsToSql[colName] # ""
  THEN jsToSql[colName] ELSE colName

\* the placeholder numbered from the 0-based index
ColClause_ZeroBased(jsToSql, colName, idx) ==
  <<QId(ColName(jsToSql, colName)), Op("="), Ph(idx)>>

\* `"${jsToSql[colName] || colName}"=$${idx + 1}` with 0-based idx
ColClause(jsToSql, colName, idx) ==
  <<QId(ColName(jsToSql, colName)), Op("="), Ph(idx + 1)>>

\* the empty-mapping check dropped: the clauses are built first
sqlForPartialUpdate_NoEmptyCheck(dataToUpdate, tabled, jsToSql) ==
  LET keys == ObjectKeys(dataToUpdate)
      cols == [i \in 1..Len(keys) |-> ColClause(jsToSql, keys[i], i - 1)]
  IN  IF ~tabled /\ Len(keys) > 0
      THEN [err |-> "TypeError", res |-> NoUpdate]
      ELSE [err |-> "none",
            res |-> [setCols |-> Join(cols, Comma),
                     values |-> ObjectValues(dataToUpdate)]]

\* tabled = FALSE: the second argument was not passed
sqlForPartialUpdate(dataToUpdate, tabled, jsToSql) ==
  LET keys == ObjectKeys(dataToUpdate)
      cols == [i \in 1..Len(keys) |-> ColClause(jsToSql, keys[i], i - 1)]
  IN  IF Len(keys) = 0
      THEN [err |-> "BadRequestError", res |-> NoUpdate]
      ELSE IF ~tabled
      THEN [err |-> "TypeError", res |-> NoUpdate]
      ELSE [err |-> "none",
            res |-> [setCols |-> Join(cols, Comma),
                     values |-> ObjectValues(dataToUpdate)]]

(***************************************************************************)
(* Inputs of the helper.                                                   *)
(***************************************************************************)
Aliya == <<"A", "l", "i", "y", "a">>
Keys == {"firstName", "age", "companyHandle"}
Cols == {"first_name", "company_handle"}
DataVals == {Str(Aliya), Num(32)}
Tables == UNION {[S -> Cols] : S \in SUBSET Keys}

Distinct(seq) == \A i, j \in 1..Len(seq) : seq[i] = seq[j] => i = j

Objects ==
  UNION {{obj \in [1..n -> Keys \X DataVals] : Distinct(ObjectKeys(obj))}
          : n \in 0..MaxKeys}

NoQuery == [sql |-> <<>>, binds |-> <<>>]

NoCall == [op |-> "none", arg |-> <<>>, err |-> "none", res |-> <<>>,
           q |-> NoQuery, nq |-> 0]

\* no Company.create in flight, no request made
NoCreating == <<>>
\* res.locals.user when the request carries no valid token
NoUser == [username |-> "none", isAdmin |-> FALSE]
NoRequest ==
  [route |-> "none", caller |-> NoUser, username |-> "none", id |-> Undef,
   body |-> "none", status |-> 0]

SqlInputs ==
  {[data |-> d, tabled |-> b, jsToSql |-> t] :
     d \in Objects, b \in BOOLEAN, t \in Tables} \ 
  {a \in [data : Objects, tabled : {FALSE}, jsToSql : Tables] :
     a.jsToSql # NoTable}

\* a helper that shifts the entries off the object it was handed
SqlCall_ConsumesData ==
  /\ call.op = "sqlForPartialUpdate"
  /\ call.err = "pending"
  /\ LET r == sqlForPartialUpdate(call.arg.data, call.arg.tabled,
                                  call.arg.jsToSql)
     IN  call' = [call EXCEPT !.err = r.err, !.res = r.res,
                              !.arg.data = <<>>]
  /\ UNCHANGED <<jobs, nextId, companies, creating, users, applications, http>>

\* one call of the helper on the inputs drawn by InitSql
SqlCall ==
  /\ call.op = "sqlForPartialUpdate"
  /\ call.err = "pending"
  /\ LET r == sqlForPartialUpdate(call.arg.data, call.arg.tabled,
                                  call.arg.jsToSql)
     IN  call' = [call EXCEPT !.err = r.err, !.res = r.res]
  /\ UNCHANGED <<jobs, nextId, companies, creating, users, applications, http>>

InitSql ==
  /\ jobs = {}
  /\ nextId = 1
  /\ companies = {}
  /\ \E a \in SqlInputs :
       call = [op |-> "sqlForPartialUpdate", arg |-> a, err |-> "pending",
               res |-> NoUpdate, q |-> NoQuery, nq |-> 0]
  /\ creating = NoCreating
  /\ users = {}
  /\ applications = {}
  /\ http = NoRequest

SpecSql == InitSql /\ [][SqlCall]_vars

(***************************************************************************)
(* Text: lower-casing, collation order and the LIKE pattern language of    *)
(* the database (% matches any run of characters, _ any one character).    *)
(***************************************************************************)
LowerChar(c) ==
  CASE c = "C" -> "c"
    [] c = "J" -> "j"
    [] OTHER -> c

LowerStr(s) == [i \in 1..Len(s) |-> LowerChar(s[i])]

CharOrder == <<"1", "2", "C", "J", "_", "c", "j">>
CharRank(c) == CHOOSE i \in 1..Len(CharOrder) : CharOrder[i] = c

RECURSIVE StrLeq(_, _)
StrLeq(a, b) ==
  IF a = <<>> THEN TRUE
  ELSE IF b = <<>> THEN FALSE
  ELSE IF a[1] = b[1] THEN StrLeq(Tail(a), Tail(b))
  ELSE CharRank(a[1]) < CharRank(b[1])

RECURSIVE LikeMatch(_, _)
LikeMatch(p, s) ==
  IF p = <<>> THEN s = <<>>
  ELSE IF p[1] = "%"
  THEN LikeMatch(Tail(p), s) \/ (s # <<>> /\ LikeMatch(p, Tail(s)))
  ELSE IF p[1] = "_"
  THEN s # <<>> /\ LikeMatch(Tail(p), Tail(s))
  ELSE s # <<>> /\ p[1] = s[1] /\ LikeMatch(Tail(p), Tail(s))

ILike(s, p) == LikeMatch(LowerStr(p), LowerStr(s))

(***************************************************************************)
(* The database: db.query(sql, binds) on the tables jobs and companies.    *)
(* A row is a record of values indexed by column name.                     *)
(***************************************************************************)
JobColumns == {"id", "title", "salary", "equity", "company_handle"}
CompanyColumns ==
  {"handle", "name", "description", "num_employees", "logo_url"}
Columns(t) == IF t = "jobs" THEN JobColumns ELSE CompanyColumns

\* the numbers of the placeholders of a statement must be $1..$n for the
\* n bind values sent with it
ParamsOk(q) ==
  {q.sql[i].n : i \in {j \in 1..Len(q.sql) : q.sql[j].k = "ph"}}
    = 1..Len(q.binds)

\* the conditions of a statement: groups of four tokens
\* WHERE|AND column operator operand
CondAt(toks, i) ==
  [conn |-> toks[4 * i - 3], col |-> toks[4 * i - 2],
   op |-> toks[4 * i - 1], rhs |-> toks[4 * i]]

CondsOk(toks, t) ==
  /\ Len(toks) % 4 = 0
  /\ \A i \in 1..(Len(toks) \div 4) :
       LET c == CondAt(toks, i)
       IN  /\ c.conn = Kw(IF i = 1 THEN "WHERE" ELSE "AND")
           /\ c.col.k = "id" /\ c.col.s \in Columns(t)
           /\ c.op.k = "op"
           /\ c.rhs.k \in {"ph", "lit"}

Operand(tok, binds) == IF tok.k = "ph" THEN binds[tok.n] ELSE Num(tok.n)

\* a comparison with NULL on either side is not true
Compare(lhs, op, rhs) ==
  CASE op = "ILIKE" -> lhs.t = "str" /\ rhs.t = "str" /\ ILike(lhs.s, rhs.s)
    [] op = ">=" -> lhs.t = "num" /\ rhs.t = "num" /\ lhs.n >= rhs.n
    [] op = "<=" -> lhs.t = "num" /\ rhs.t = "num" /\ lhs.n <= rhs.n
    [] op = ">" -> lhs.t = "num" /\ rhs.t = "num" /\ lhs.n > rhs.n
    [] op = "=" -> lhs.t \in {"num", "str"} /\ lhs = rhs
    [] OTHER -> FALSE

RowMatches(row, toks, binds) ==
  \A i \in 1..(Len(toks) \div 4) :
    LET c == CondAt(toks, i)
    IN  Compare(row[c.col.s], c.op.s, Operand(c.rhs, binds))

\* SELECT FROM <table> [WHERE ... [AND ...]] [ORDER BY <column>]
HasOrderBy(sql) == Len(sql) >= 5 /\ sql[Len(sql) - 1] = Kw("ORDER BY")
SelectConds(sql) ==
  SubSeq(sql, 4, IF HasOrderBy(sql) THEN Len(sql) - 2 ELSE Len(sql))

SelectOk(q, t) ==
  /\ Len(q.sql) >= 3
  /\ q.sql[1] = Kw("SELECT") /\ q.sql[2] = Kw("FROM") /\ q.sql[3] = Id(t)
  /\ CondsOk(SelectConds(q.sql), t)
  /\ HasOrderBy(q.sql) =>
       (q.sql[Len(q.sql)].k = "id" /\ q.sql[Len(q.sql)].s \in Columns(t))
  /\ ParamsOk(q)

SelectRows(q, tbl) ==
  {r \in tbl : RowMatches(r, SelectConds(q.sql), q.binds)}

SortKeyLeq(a, b) ==
  IF a.t = "str" /\ b.t = "str" THEN StrLeq(a.s, b.s)
  ELSE IF a.t = "num" /\ b.t = "num" THEN a.n <= b.n
  ELSE b.t = "null"

\* the orders in which the database may return a set of rows: any order
\* without ORDER BY, any order ascending in the column with it (rows with
\* equal keys come in either order)
RowOrders(rows, sql) ==
  {f \in [1..Cardinality(rows) -> rows] :
     /\ \A i, j \in 1..Cardinality(rows) : f[i] = f[j] => i = j
     /\ HasOrderBy(sql) =>
          \A i, j \in 1..Cardinality(rows) :
            i < j => SortKeyLeq(f[i][sql[Len(sql)].s], f[j][sql[Len(sql)].s])}

\* UPDATE <table> SET "col"=$i, ... WHERE <key> = $n RETURNING
WherePos(sql) == CHOOSE i \in 1..Len(sql) : sql[i] = Kw("WHERE")
SetToks(sql) == SubSeq(sql, 4, WherePos(sql) - 1)
UpdateConds(sql) == SubSeq(sql, WherePos(sql), Len(sql) - 1)
SetCount(sql) == (Len(SetToks(sql)) + 1) \div 4

UpdateOk(q, t) ==
  /\ Len(q.sql) >= 8
  /\ q.sql[1] = Kw("UPDATE") /\ q.sql[2] = Id(t) /\ q.sql[3] = Kw("SET")
  /\ q.sql[Len(q.sql)] = Kw("RETURNING")
  /\ \E i \in 1..Len(q.sql) : q.sql[i] = Kw("WHERE")
  /\ LET st == SetToks(q.sql)
     IN  /\ Len(st) % 4 = 3
         /\ \A i \in 1..SetCount(q.sql) :
              /\ st[4 * i - 3].k = "qid" /\ st[4 * i - 3].s \in Columns(t)
              /\ st[4 * i - 2] = Op("=")
              /\ st[4 * i - 1].k = "ph"
              /\ i < SetCount(q.sql) => st[4 * i] = Comma
         /\ \A i, j \in 1..SetCount(q.sql) :
              st[4 * i - 3].s = st[4 * j - 3].s => i = j
  /\ CondsOk(UpdateConds(q.sql), t)
  /\ ParamsOk(q)

UpdatedRow(row, q) ==
  LET st == SetToks(q.sql)
      Assigned(c) == \E i \in 1..SetCount(q.sql) : st[4 * i - 3].s = c
      Pos(c) == CHOOSE i \in 1..SetCount(q.sql) : st[4 * i - 3].s = c
  IN  [c \in DOMAIN row |->
         IF Assigned(c) THEN q.binds[st[4 * Pos(c) - 1].n] ELSE row[c]]

UpdateHits(q, tbl) == {r \in tbl : RowMatches(r, UpdateConds(q.sql), q.binds)}

UpdateTable(q, tbl) ==
  (tbl \ UpdateHits(q, tbl)) \cup {UpdatedRow(r, q) : r \in UpdateHits(q, tbl)}

(***************************************************************************)
(* Calls of the models.  call records the latest call: its arguments, the  *)
(* error it threw ("none" when it returned), the rows it returned, the     *)
(* last statement it sent to the database and how many it sent.            *)
(***************************************************************************)
Returned(op, arg, rows, q, n) ==
  [op |-> op, arg |-> arg, err |-> "none", res |-> rows, q |-> q, nq |-> n]
Threw(op, arg, err, q, n) ==
  [op |-> op, arg |-> arg, err |-> err, res |-> <<>>, q |-> q, nq |-> n]

\* requests are handled one at a time: a call starts when none is running
Idle == call = NoCall

\* the call's promise settles (return or throw) and its caller takes it
Settle ==
  /\ call.op \notin {"none", "sqlForPartialUpdate"}
  /\ call' = NoCall
  /\ UNCHANGED <<jobs, nextId, companies, creating, users, applications, http>>

(***************************************************************************)
(* models/job.js                                                           *)
(***************************************************************************)
\* the RETURNING / SELECT column list: company_handle AS "companyHandle"
JobView(r) ==
  [id |-> r.id, title |-> r.title, salary |-> r.salary, equity |-> r.equity,
   companyHandle |-> r.company_handle]

\* num_employees AS "numEmployees", logo_url AS "logoUrl"
CompanyView(r) ==
  [handle |-> r.handle, name |-> r.name, description |-> r.description,
   numEmployees |-> r.num_employees, logoUrl |-> r.logo_url]

\* the column list of the statements on table t
RowView(t, r) == IF t = "jobs" THEN JobView(r) ELSE CompanyView(r)

JobViews(rows) == [i \in 1..Len(rows) |-> JobView(rows[i])]

JobSelect == <<Kw("SELECT"), Kw("FROM"), Id("jobs")>>
OrderByTitle == <<Kw("ORDER BY"), Id("title")>>

Append2(q, toks, v) == [sql |-> q.sql \o toks, binds |-> Append(q.binds, v)]
Append1(q, toks) == [sql |-> q.sql \o toks, binds |-> q.binds]

\* `%${title}%`
Wildcard(v) == Str(<<"%">> \o v.s \o <<"%">>)

\* if (title) { query += WHERE title ILIKE $1; values.push(`%${title}%`) }
JobTitleClause(q, title) ==
  IF Truthy(title)
  THEN Append2(q, <<Kw("WHERE"), Id("title"), Op("ILIKE"), Ph(1)>>,
               Wildcard(title))
  ELSE q

\* the placeholder taken from the filter's place in the fixed sequence
JobSalaryClause_FixedSlot(q, title, minSalary) ==
  IF Truthy(minSalary)
  THEN Append2(q, <<Kw(IF Truthy(title) THEN "AND" ELSE "WHERE"),
                    Id("salary"), Op(">="), Ph(2)>>, minSalary)
  ELSE q

\* the connective chosen without looking at the title filter
JobSalaryClause_AlwaysAnd(q, title, minSalary) ==
  IF Truthy(minSalary)
  THEN Append2(q, <<Kw("AND"), Id("salary"), Op(">="),
                    Ph(Len(q.binds) + 1)>>, minSalary)
  ELSE q

\* the bound tested against undefined: an explicit 0 counts as given
JobSalaryClause_ZeroCounts(q, title, minSalary) ==
  IF minSalary # Undef
  THEN Append2(q, <<Kw(IF Truthy(title) THEN "AND" ELSE "WHERE"),
                    Id("salary"), Op(">="), Ph(Len(q.binds) + 1)>>, minSalary)
  ELSE q

\* if (minSalary) { query += ${title ? 'AND' : 'WHERE'} salary >=
\*   $${values.length + 1}; values.push(minSalary) }
JobSalaryClause(q, title, minSalary) ==
  IF Truthy(minSalary)
  THEN Append2(q, <<Kw(IF Truthy(title) THEN "AND" ELSE "WHERE"),
                    Id("salary"), Op(">="), Ph(Len(q.binds) + 1)>>, minSalary)
  ELSE q

StrTrue == Str(<<"t", "r", "u", "e">>)
StrFalse == Str(<<"f", "a", "l", "s", "e">>)

\* the flag tested for truthiness instead of compared with true / "true"
JobEquityClause_Truthy(q, title, minSalary, hasEquity) ==
  LET conn == Kw(IF Truthy(title) \/ Truthy(minSalary)
                 THEN "AND" ELSE "WHERE")
  IN  IF Truthy(hasEquity)
      THEN Append1(q, <<conn, Id("equity"), Op(">"), Lit(0)>>)
      ELSE IF hasEquity = StrFalse \/ hasEquity = Bool(FALSE)
      THEN Append1(q, <<conn, Id("equity"), Op("="), Lit(0)>>)
      ELSE q

\* if (hasEquity === "true" || hasEquity === true) ... equity > 0
\* else if (hasEquity === 'false' || hasEquity === false) ... equity = 0
JobEquityClause(q, title, minSalary, hasEquity) ==
  LET conn == Kw(IF Truthy(title) \/ Truthy(minSalary)
                 THEN "AND" ELSE "WHERE")
  IN  IF hasEquity = StrTrue \/ hasEquity = Bool(TRUE)
      THEN Append1(q, <<conn, Id("equity"), Op(">"), Lit(0)>>)
      ELSE IF hasEquity = StrFalse \/ hasEquity = Bool(FALSE)
      THEN Append1(q, <<conn, Id("equity"), Op("="), Lit(0)>>)
      ELSE q

\* the statement left without its ORDER BY
JobCriteriaQuery_NoOrder(f) ==
  LET q0 == [sql |-> JobSelect, binds |-> <<>>]
      q1 == JobTitleClause(q0, f.title)
      q2 == JobSalaryClause(q1, f.title, f.minSalary)
  IN  JobEquityClause(q2, f.title, f.minSalary, f.hasEquity)

JobCriteriaQuery(f) ==
  LET q0 == [sql |-> JobSelect, binds |-> <<>>]
      q1 == JobTitleClause(q0, f.title)
      q2 == JobSalaryClause(q1, f.title, f.minSalary)
      q3 == JobEquityClause(q2, f.title, f.minSalary, f.hasEquity)
  IN  Append1(q3, OrderByTitle)

JobTitles == {<<"J", "1">>, <<"j", "2">>}
JobSalaries == {1, 2}
JobEquities == {Null, Num(0), Num(1)}
Handles == {<<"c", "1">>, <<"c", "2">>}

TitleFilters == {Undef, Str(<<>>), Str(<<"j">>), Str(<<"2">>), Str(<<"_">>)}
SalaryFilters == {Undef} \cup {Num(n) : n \in 0..MaxSalary}
EquityFilters ==
  {Undef, Bool(TRUE), Bool(FALSE), StrTrue, StrFalse, Str(<<"1">>)}
JobFilters ==
  [title : TitleFilters, minSalary : SalaryFilters, hasEquity : EquityFilters]

\* db.query(sql, binds) of a SELECT on table t, then `.rows`
RunSelect(op, arg, q, t, tbl) ==
  IF SelectOk(q, t)
  THEN \E rows \in RowOrders(SelectRows(q, tbl), q.sql) :
         call' = Returned(op, arg, [i \in 1..Len(rows) |-> RowView(t, rows[i])],
                          q, 1)
  ELSE call' = Threw(op, arg, "DbError", q, 1)

JobFindAll ==
  /\ Idle
  /\ RunSelect("Job.findAll", <<>>,
               [sql |-> JobSelect \o OrderByTitle, binds |-> <<>>],
               "jobs", jobs)
  /\ UNCHANGED <<jobs, nextId, companies, creating, users, applications, http>>

JobFindByCriteria ==
  /\ Idle
  /\ \E f \in JobFilters :
       RunSelect("Job.findByCriteria", f, JobCriteriaQuery(f),
                 "jobs", jobs)
  /\ UNCHANGED <<jobs, nextId, companies, creating, users, applications, http>>

JobIds == {Num(i) : i \in 1..(MaxJobId + 1)}

JobKeyQuery(head, tail, id) ==
  [sql |-> head \o <<Kw("WHERE"), Id("id"), Op("="), Ph(1)>> \o tail,
   binds |-> <<id>>]

\* const job = jobRes.rows[0]; if (!job) throw new NotFoundError
JobGet ==
  /\ Idle
  /\ \E id \in JobIds :
       LET q == JobKeyQuery(JobSelect, <<>>, id)
           hit == SelectRows(q, jobs)
       IN  IF ~SelectOk(q, "jobs")
           THEN call' = Threw("Job.get", id, "DbError", q, 1)
           ELSE IF hit = {}
           THEN call' = Threw("Job.get", id, "NotFoundError", q, 1)
           ELSE \E r \in hit :
                  call' = Returned("Job.get", id, <<JobView(r)>>, q, 1)
  /\ UNCHANGED <<jobs, nextId, companies, creating, users, applications, http>>

JobInputs ==
  {[title |-> Str(<<"J", "1">>), salary |-> Num(2), equity |-> Num(1),
    companyHandle |-> Str(<<"c", "1">>)],
   [title |-> Str(<<"j", "2">>), salary |-> Num(1), equity |-> Num(0),
    companyHandle |-> Str(<<"c", "2">>)]}

\* INSERT INTO jobs (title, salary, equity, company_handle) VALUES
\* ($1, $2, $3, $4) RETURNING ...; the id comes from the table's sequence
JobCreate ==
  /\ Idle
  /\ nextId <= MaxJobId
  /\ \E d \in JobInputs :
       LET row == [id |-> Num(nextId), title |-> d.title,
                   salary |-> d.salary, equity |-> d.equity,
                   company_handle |-> d.companyHandle]
       IN  /\ jobs' = jobs \cup {row}
           /\ nextId' = nextId + 1
           /\ call' = Returned("Job.create", d, <<JobView(row)>>,
                               [sql |-> <<Kw("INSERT"), Id("jobs")>>,
                                binds |-> <<d.title, d.salary, d.equity,
                                            d.companyHandle>>], 1)
  /\ UNCHANGED <<companies, creating, users, applications, http>>

JobJsToSql == [x \in {"companyHandle"} |-> "company_handle"]

JobUpdateData ==
  {<<>>,
   <<<<"salary", Num(1)>>>>,
   <<<<"equity", Num(0)>>, <<"companyHandle", Str(<<"c", "2">>)>>>>}

\* the key bound first: binds [key, ...values] under the same statement
UpdateQuery_KeyFirst(t, key, u, k) ==
  [sql |-> <<Kw("UPDATE"), Id(t), Kw("SET")>> \o u.setCols \o
           <<Kw("WHERE"), Id(key), Op("="), Ph(Len(u.values) + 1),
             Kw("RETURNING")>>,
   binds |-> <<k>> \o u.values]

\* UPDATE <table> SET ${setCols} WHERE <key> = $${values.length + 1}
\* RETURNING ..., with binds [...values, key]
UpdateQuery(t, key, u, k) ==
  [sql |-> <<Kw("UPDATE"), Id(t), Kw("SET")>> \o u.setCols \o
           <<Kw("WHERE"), Id(key), Op("="), Ph(Len(u.values) + 1),
             Kw("RETURNING")>>,
   binds |-> Append(u.values, k)]

\* the missing row not reported: undefined is returned
RunUpdate_NoNotFound(op, t, key, jsToSql, k, data, tbl) ==
  LET u == sqlForPartialUpdate(data, TRUE, jsToSql)
      arg == [key |-> k, data |-> data]
      q == UpdateQuery(t, key, u.res, k)
      hit == UpdateHits(q, tbl)
  IN  IF u.err # "none"
      THEN [tbl |-> tbl, call |-> Threw(op, arg, u.err, NoQuery, 0)]
      ELSE IF ~UpdateOk(q, t)
      THEN [tbl |-> tbl, call |-> Threw(op, arg, "DbError", q, 1)]
      ELSE [tbl |-> UpdateTable(q, tbl),
            call |-> Returned(op, arg,
                       [i \in 1..Cardinality(hit) |->
                          RowView(t, UpdatedRow(CHOOSE r \in hit : TRUE, q))],
                       q, 1)]

\* the row looked up before the payload is examined
RunUpdate_LookupFirst(op, t, key, jsToSql, k, data, tbl) ==
  LET u == sqlForPartialUpdate(data, TRUE, jsToSql)
      arg == [key |-> k, data |-> data]
      q == UpdateQuery(t, key, u.res, k)
      hit == {r \in tbl : r[key] = k}
  IN  IF hit = {}
      THEN [tbl |-> tbl, call |-> Threw(op, arg, "NotFoundError", q, 1)]
      ELSE IF u.err # "none"
      THEN [tbl |-> tbl, call |-> Threw(op, arg, u.err, q, 1)]
      ELSE [tbl |-> UpdateTable(q, tbl),
            call |-> Returned(op, arg,
                       <<RowView(t, UpdatedRow(CHOOSE r \in hit : TRUE, q))>>,
                       q, 2)]

\* Job.update and Company.update up to the table, key and column list
RunUpdate(op, t, key, jsToSql, k, data, tbl) ==
  LET u == sqlForPartialUpdate(data, TRUE, jsToSql)
      arg == [key |-> k, data |-> data]
      q == UpdateQuery(t, key, u.res, k)
      hit == UpdateHits(q, tbl)
  IN  IF u.err # "none"
      THEN [tbl |-> tbl, call |-> Threw(op, arg, u.err, NoQuery, 0)]
      ELSE IF ~UpdateOk(q, t)
      THEN [tbl |-> tbl, call |-> Threw(op, arg, "DbError", q, 1)]
      ELSE IF hit = {}
      THEN [tbl |-> UpdateTable(q, tbl),
            call |-> Threw(op, arg, "NotFoundError", q, 1)]
      ELSE [tbl |-> UpdateTable(q, tbl),
            call |-> Returned(op, arg,
                       <<RowView(t, UpdatedRow(CHOOSE r \in hit : TRUE, q))>>,
                       q, 1)]

JobUpdate ==
  /\ Idle
  /\ \E id \in JobIds, data \in JobUpdateData :
       LET r == RunUpdate("Job.update", "jobs", "id", JobJsToSql, id, data,
                          jobs)
       IN  jobs' = r.tbl /\ call' = r.call
  /\ UNCHANGED <<nextId, companies, creating, users, applications, http>>

\* DELETE FROM <table> WHERE <key> = $1 RETURNING <key>
DeleteQuery(t, key, k) ==
  [sql |-> <<Kw("DELETE"), Kw("FROM"), Id(t), Kw("WHERE"), Id(key), Op("="),
             Ph(1), Kw("RETURNING"), Id(key)>>,
   binds |-> <<k>>]

DeleteHits(q, tbl) ==
  {r \in tbl : RowMatches(r, SubSeq(q.sql, 4, 7), q.binds)}

\* a remove that reports the id without deleting the row
JobRemove_KeepsRow ==
  /\ Idle
  /\ \E id \in JobIds :
       LET q == DeleteQuery("jobs", "id", id)
           hit == DeleteHits(q, jobs)
       IN  /\ jobs' = jobs
           /\ call' = IF hit = {}
                      THEN Threw("Job.remove", id, "NotFoundError", q, 1)
                      ELSE Returned("Job.remove", id, <<[id |-> id]>>, q, 1)
  /\ UNCHANGED <<nextId, companies, creating, users, applications, http>>

\* const deletedId = result.rows[0]; if (!deletedId) throw NotFoundError;
\* return deletedId
JobRemove ==
  /\ Idle
  /\ \E id \in JobIds :
       LET q == DeleteQuery("jobs", "id", id)
           hit == DeleteHits(q, jobs)
       IN  /\ jobs' = jobs \ hit
           /\ call' = IF hit = {}
                      THEN Threw("Job.remove", id, "NotFoundError", q, 1)
                      ELSE Returned("Job.remove", id, <<[id |-> id]>>, q, 1)
  /\ UNCHANGED <<nextId, companies, creating, users, applications, http>>

(***************************************************************************)
(* models/company.js                                                       *)
(***************************************************************************)
CompanySelect == <<Kw("SELECT"), Kw("FROM"), Id("companies")>>
OrderByName == <<Kw("ORDER BY"), Id("name")>>

\* equal bounds rejected as well
CompanyRangeInvalid_OrEqual(f) ==
  /\ Truthy(f.minEmployees)
  /\ Truthy(f.maxEmployees)
  /\ f.minEmployees.n >= f.maxEmployees.n

\* if (minEmployees && maxEmployees && minEmployees > maxEmployees)
\*   throw new BadRequestError
CompanyRangeInvalid(f) ==
  /\ Truthy(f.minEmployees)
  /\ Truthy(f.maxEmployees)
  /\ JsGreater(f.minEmployees, f.maxEmployees)

\* if (name) { query += WHERE name ILIKE $1; values.push(`%${name}%`) }
CompanyNameClause(q, name) ==
  IF Truthy(name)
  THEN Append2(q, <<Kw("WHERE"), Id("name"), Op("ILIKE"), Ph(1)>>,
               Wildcard(name))
  ELSE q

\* if (minEmployees) { query += ${name ? 'AND' : 'WHERE'} num_employees >=
\*   $${values.length + 1}; values.push(minEmployees) }
CompanyMinClause(q, name, minEmployees) ==
  IF Truthy(minEmployees)
  THEN Append2(q, <<Kw(IF Truthy(name) THEN "AND" ELSE "WHERE"),
                    Id("num_employees"), Op(">="), Ph(Len(q.binds) + 1)>>,
               minEmployees)
  ELSE q

\* if (maxEmployees) { query += ${name || minEmployees ? 'AND' : 'WHERE'}
\*   num_employees <= $${values.length + 1}; values.push(maxEmployees) }
CompanyMaxClause(q, name, minEmployees, maxEmployees) ==
  IF Truthy(maxEmployees)
  THEN Append2(q, <<Kw(IF Truthy(name) \/ Truthy(minEmployees)
                       THEN "AND" ELSE "WHERE"),
                    Id("num_employees"), Op("<="), Ph(Len(q.binds) + 1)>>,
               maxEmployees)
  ELSE q

CompanyCriteriaQuery(f) ==
  LET q0 == [sql |-> CompanySelect, binds |-> <<>>]
      q1 == CompanyNameClause(q0, f.name)
      q2 == CompanyMinClause(q1, f.name, f.minEmployees)
      q3 == CompanyMaxClause(q2, f.name, f.minEmployees, f.maxEmployees)
  IN  Append1(q3, OrderByName)

CompanyNames == {<<"C", "1">>, <<"c", "2">>}
CompanySizes == {Null, Num(1), Num(2)}
NameFilters == {Undef, Str(<<>>), Str(<<"c">>), Str(<<"2">>), Str(<<"_">>)}
EmployeeFilters == {Undef} \cup {Num(n) : n \in 0..MaxEmployees}
CompanyFilters ==
  [name : NameFilters, minEmployees : EmployeeFilters,
   maxEmployees : EmployeeFilters]

CompanyFindAll ==
  /\ Idle
  /\ RunSelect("Company.findAll", <<>>,
               [sql |-> CompanySelect \o OrderByName, binds |-> <<>>],
               "companies", companies)
  /\ UNCHANGED <<jobs, nextId, companies, creating, users, applications, http>>

CompanyFindByCriteria ==
  /\ Idle
  /\ \E f \in CompanyFilters :
       IF CompanyRangeInvalid(f)
       THEN call' = Threw("Company.findByCriteria", f, "BadRequestError",
                          NoQuery, 0)
       ELSE RunSelect("Company.findByCriteria", f, CompanyCriteriaQuery(f),
                      "companies", companies)
  /\ UNCHANGED <<jobs, nextId, companies, creating, users, applications, http>>

CompanyKeyQuery(head, tail, handle) ==
  [sql |-> head \o <<Kw("WHERE"), Id("handle"), Op("="), Ph(1)>> \o tail,
   binds |-> <<handle>>]

CompanyHandles == {Str(h) : h \in Handles} \cup {Str(<<"c", "_">>)}

\* const company = companyRes.rows[0]; if (!company) throw NotFoundError
CompanyGet ==
  /\ Idle
  /\ \E h \in CompanyHandles :
       LET q == CompanyKeyQuery(CompanySelect, <<>>, h)
           hit == SelectRows(q, companies)
       IN  IF ~SelectOk(q, "companies")
           THEN call' = Threw("Company.get", h, "DbError", q, 1)
           ELSE IF hit = {}
           THEN call' = Threw("Company.get", h, "NotFoundError", q, 1)
           ELSE \E r \in hit :
                  call' = Returned("Company.get", h, <<CompanyView(r)>>, q, 1)
  /\ UNCHANGED <<jobs, nextId, companies, creating, users, applications, http>>

NoText == Str(<<>>)

CompanyInputs ==
  {[handle |-> Str(<<"c", "1">>), name |-> Str(<<"C", "1">>),
    description |-> NoText, numEmployees |-> Num(1), logoUrl |-> Null],
   [handle |-> Str(<<"c", "2">>), name |-> Str(<<"c", "2">>),
    description |-> NoText, numEmployees |-> Num(2), logoUrl |-> Null],
   [handle |-> Str(<<"c", "1">>), name |-> Str(<<"c", "2">>),
    description |-> NoText, numEmployees |-> Null, logoUrl |-> Null]}

\* SELECT handle FROM companies WHERE handle = $1
DuplicateQuery(handle) == CompanyKeyQuery(CompanySelect, <<>>, handle)

\* INSERT INTO companies (handle, name, description, num_employees,
\* logo_url) VALUES ($1, $2, $3, $4, $5) RETURNING ...
InsertQuery(d) ==
  [sql |-> <<Kw("INSERT"), Id("companies")>>,
   binds |-> <<d.handle, d.name, d.description, d.numEmployees, d.logoUrl>>]

CompanyRow(d) ==
  [handle |-> d.handle, name |-> d.name, description |-> d.description,
   num_employees |-> d.numEmployees, logo_url |-> d.logoUrl]

\* handle is the primary key of companies: the database refuses a second
\* row with a handle the table already holds
HandleTaken(handle, tbl) == \E r \in tbl : r.handle = handle

\* the INSERT as the database runs it
CompanyInsert(d, tbl) ==
  IF HandleTaken(d.handle, tbl)
  THEN [tbl |-> tbl, err |-> "DbError"]
  ELSE [tbl |-> tbl \cup {CompanyRow(d)}, err |-> "none"]

\* the duplicate check left out: the INSERT is sent straight away
CompanyCreate_NoDuplicateCheck ==
  /\ Idle
  /\ \E d \in CompanyInputs :
       LET ins == CompanyInsert(d, companies)
       IN  /\ companies' = ins.tbl
           /\ call' = IF ins.err # "none"
                      THEN Threw("Company.create", d, ins.err,
                                 InsertQuery(d), 1)
                      ELSE Returned("Company.create", d,
                                    <<CompanyView(CompanyRow(d))>>,
                                    InsertQuery(d), 1)
  /\ UNCHANGED <<jobs, nextId, creating, users, applications, http>>

\* duplicateCheck, then if (duplicateCheck.rows[0]) throw BadRequestError,
\* then the INSERT
CompanyCreate ==
  /\ Idle
  /\ \E d \in CompanyInputs :
       LET check == DuplicateQuery(d.handle)
           ins == CompanyInsert(d, companies)
       IN  IF SelectRows(check, companies) # {}
           THEN /\ call' = Threw("Company.create", d, "BadRequestError",
                                 check, 1)
                /\ UNCHANGED companies
           ELSE /\ companies' = ins.tbl
                /\ call' = IF ins.err # "none"
                           THEN Threw("Company.create", d, ins.err,
                                      InsertQuery(d), 2)
                           ELSE Returned("Company.create", d,
                                         <<CompanyView(CompanyRow(d))>>,
                                         InsertQuery(d), 2)
  /\ UNCHANGED <<jobs, nextId, creating, users, applications, http>>

CompanyJsToSql ==
  [x \in {"numEmployees", "logoUrl"} |->
     IF x = "numEmployees" THEN "num_employees" ELSE "logo_url"]

CompanyUpdateData ==
  {<<>>,
   <<<<"numEmployees", Num(2)>>>>,
   <<<<"name", Str(<<"c", "2">>)>>, <<"numEmployees", Null>>>>}

CompanyUpdate ==
  /\ Idle
  /\ \E h \in CompanyHandles, data \in CompanyUpdateData :
       LET r == RunUpdate("Company.update", "companies", "handle",
                          CompanyJsToSql, h, data, companies)
       IN  companies' = r.tbl /\ call' = r.call
  /\ UNCHANGED <<jobs, nextId, creating, users, applications, http>>

\* const company = result.rows[0]; if (!company) throw NotFoundError
CompanyRemove ==
  /\ Idle
  /\ \E h \in CompanyHandles :
       LET q == DeleteQuery("companies", "handle", h)
           hit == DeleteHits(q, companies)
       IN  /\ companies' = companies \ hit
           /\ call' = IF hit = {}
                      THEN Threw("Company.remove", h, "NotFoundError", q, 1)
                      ELSE Returned("Company.remove", h, <<>>, q, 1)
  /\ UNCHANGED <<jobs, nextId, creating, users, applications, http>>

(***************************************************************************)
(* Company.create as its two round trips, for calls made side by side.     *)
(***************************************************************************)
Sessions == {"a", "b"}

\* const duplicateCheck = await db.query(SELECT handle ...);
\* if (duplicateCheck.rows[0]) throw new BadRequestError
CreateCheck(p) ==
  /\ creating[p].pc = "check"
  /\ LET check == DuplicateQuery(creating[p].arg.handle)
     IN  creating' =
           [creating EXCEPT ![p] =
              IF SelectRows(check, companies) # {}
              THEN [@ EXCEPT !.pc = "done", !.err = "BadRequestError"]
              ELSE [@ EXCEPT !.pc = "insert"]]
  /\ UNCHANGED <<jobs, nextId, companies, call, users, applications, http>>

\* const result = await db.query(INSERT INTO companies ...);
\* return result.rows[0]; an error of the database is not caught
CreateInsert(p) ==
  /\ creating[p].pc = "insert"
  /\ LET d == creating[p].arg
         ins == CompanyInsert(d, companies)
     IN  /\ companies' = ins.tbl
         /\ creating' =
              [creating EXCEPT ![p] =
                 [@ EXCEPT !.pc = "done", !.err = ins.err,
                           !.res = IF ins.err = "none"
                                   THEN <<CompanyView(CompanyRow(d))>>
                                   ELSE <<>>]]
  /\ UNCHANGED <<jobs, nextId, call, users, applications, http>>

(***************************************************************************)
(* routes/users.js: the routes open to the user named in the path and to   *)
(* admins, with the User model and the middleware they rely on.            *)
(***************************************************************************)
Usernames == {"u1", "u2", "u3"}

\* u1Token, u3Token, adminToken, and a request without a token
Tokens ==
  {[username |-> "u1", isAdmin |-> FALSE],
   [username |-> "u3", isAdmin |-> FALSE],
   [username |-> "u2", isAdmin |-> TRUE]}
Callers == Tokens \cup {NoUser}

\* :username of a request: a registered name or one nobody has
PathNames == Usernames \cup {"nope"}

\* request bodies of PATCH: failing the schema, {}, { firstName }
Bodies == {"invalid", "empty", "firstName"}

UserRow(name, first) ==
  [username |-> name, firstName |-> first, isAdmin |-> name = "u2"]

FixtureUsers == {UserRow(name, "first") : name \in Usernames}

\* the outcome of a User model operation
UserOutcome(err, res, tbl, apps) ==
  [err |-> err, res |-> res, users |-> tbl, applications |-> apps]

UserRows(username, tbl) == {u \in tbl : u.username = username}

\* User.get: the user, or NotFoundError
UserGet(username, tbl, apps) ==
  IF UserRows(username, tbl) = {}
  THEN UserOutcome("NotFoundError", <<>>, tbl, apps)
  ELSE UserOutcome("none", <<CHOOSE u \in UserRows(username, tbl) : TRUE>>,
                   tbl, apps)

\* User.update: BadRequestError on an empty payload, NotFoundError when no
\* row matches, else the row with the given fields replaced
UserUpdate(username, body, tbl, apps) ==
  IF body = "empty" THEN UserOutcome("BadRequestError", <<>>, tbl, apps)
  ELSE IF UserRows(username, tbl) = {}
  THEN UserOutcome("NotFoundError", <<>>, tbl, apps)
  ELSE LET new == UserRow(username, "edited")
       IN  UserOutcome("none", <<new>>,
                       (tbl \ UserRows(username, tbl)) \cup {new}, apps)

\* User.remove: NotFoundError when no row matches, else the row deleted
UserRemove(username, tbl, apps) ==
  IF UserRows(username, tbl) = {}
  THEN UserOutcome("NotFoundError", <<>>, tbl, apps)
  ELSE UserOutcome("none", <<>>, tbl \ UserRows(username, tbl), apps)

\* User.apply: links the user and the job id and returns the job's details
UserApply(username, id, tbl, apps) ==
  IF UserRows(username, tbl) = {} \/ id \notin {r.id : r \in jobs}
  THEN UserOutcome("NotFoundError", <<>>, tbl, apps)
  ELSE UserOutcome("none", <<JobView(CHOOSE r \in jobs : r.id = id)>>,
                   tbl, apps \cup {<<username, id>>})

\* ensureLoggedIn: passes when res.locals.user is set, else UnauthorizedError
ensureLoggedIn(user) == user # NoUser

\* the status the error handler answers for an error kind
ErrorStatus(err) ==
  CASE err = "BadRequestError" -> 400
    [] err = "UnauthorizedError" -> 401
    [] err = "NotFoundError" -> 404
    [] OTHER -> 500

\* any logged-in caller let through
SelfOrAdmin_AnyCaller(user, username) == TRUE

\* res.locals.user.isAdmin || res.locals.user.username === req.params.username
SelfOrAdmin(user, username) == user.isAdmin \/ user.username = username

Quiet == http = NoRequest

Request(route, caller, username, id, body, status) ==
  [route |-> route, caller |-> caller, username |-> username, id |-> id,
   body |-> body, status |-> status]

\* the model operation a handler ran, as the latest call
Ran(op, arg, r) ==
  IF r.err = "none" THEN Returned(op, arg, r.res, NoQuery, 0)
  ELSE Threw(op, arg, r.err, NoQuery, 0)

\* router.post("/:username/jobs/:id", ensureLoggedIn, ...)
PostUserJob ==
  /\ Quiet
  /\ \E caller \in Callers, username \in PathNames, id \in JobIds :
       LET req(status) ==
             Request("POST /users/:username/jobs/:id", caller, username, id,
                     "none", status)
           r == UserApply(username, id, users, applications)
       IN  IF ~ensureLoggedIn(caller)
           THEN /\ http' = req(ErrorStatus("UnauthorizedError"))
                /\ UNCHANGED <<call, users, applications>>
           ELSE IF SelfOrAdmin(caller, username)
           THEN /\ call' = Ran("User.apply", [key |-> username, id |-> id], r)
                /\ users' = r.users
                /\ applications' = r.applications
                /\ http' = req(IF r.err = "none" THEN 201
                               ELSE ErrorStatus(r.err))
           ELSE /\ http' = req(403)
                /\ UNCHANGED <<call, users, applications>>
  /\ UNCHANGED <<jobs, nextId, companies, creating>>

\* router.get("/:username", ensureLoggedIn, ...)
GetUser ==
  /\ Quiet
  /\ \E caller \in Callers, username \in PathNames :
       LET req(status) ==
             Request("GET /users/:username", caller, username, Undef,
                     "none", status)
           r == UserGet(username, users, applications)
       IN  IF ~ensureLoggedIn(caller)
           THEN /\ http' = req(ErrorStatus("UnauthorizedError"))
                /\ UNCHANGED <<call, users, applications>>
           ELSE IF SelfOrAdmin(caller, username)
           THEN /\ call' = Ran("User.get", username, r)
                /\ users' = r.users
                /\ applications' = r.applications
                /\ http' = req(IF r.err = "none" THEN 200
                               ELSE ErrorStatus(r.err))
           ELSE /\ http' = req(401)
                /\ UNCHANGED <<call, users, applications>>
  /\ UNCHANGED <<jobs, nextId, companies, creating>>

\* router.patch("/:username", ensureLoggedIn, ...): the body is validated
\* before the caller is looked at
PatchUser ==
  /\ Quiet
  /\ \E caller \in Callers, username \in PathNames, body \in Bodies :
       LET req(status) ==
             Request("PATCH /users/:username", caller, username, Undef,
                     body, status)
           r == UserUpdate(username, body, users, applications)
       IN  IF ~ensureLoggedIn(caller)
           THEN /\ http' = req(ErrorStatus("UnauthorizedError"))
                /\ UNCHANGED <<call, users, applications>>
           ELSE IF body = "invalid"
           THEN /\ http' = req(ErrorStatus("BadRequestError"))
                /\ UNCHANGED <<call, users, applications>>
           ELSE IF SelfOrAdmin(caller, username)
           THEN /\ call' = Ran("User.update",
                               [key |-> username, data |-> body], r)
                /\ users' = r.users
                /\ applications' = r.applications
                /\ http' = req(IF r.err = "none" THEN 200
                               ELSE ErrorStatus(r.err))
           ELSE /\ http' = req(401)
                /\ UNCHANGED <<call, users, applications>>
  /\ UNCHANGED <<jobs, nextId, companies, creating>>

\* router.delete("/:username", ensureLoggedIn, ...)
DeleteUser ==
  /\ Quiet
  /\ \E caller \in Callers, username \in PathNames :
       LET req(status) ==
             Request("DELETE /users/:username", caller, username, Undef,
                     "none", status)
           r == UserRemove(username, users, applications)
       IN  IF ~ensureLoggedIn(caller)
           THEN /\ http' = req(ErrorStatus("UnauthorizedError"))
                /\ UNCHANGED <<call, users, applications>>
           ELSE IF SelfOrAdmin(caller, username)
           THEN /\ call' = Ran("User.remove", username, r)
                /\ users' = r.users
                /\ applications' = r.applications
                /\ http' = req(IF r.err = "none" THEN 200
                               ELSE ErrorStatus(r.err))
           ELSE /\ http' = req(401)
                /\ UNCHANGED <<call, users, applications>>
  /\ UNCHANGED <<jobs, nextId, companies, creating>>

\* the response is sent; the next request starts afresh
Respond ==
  /\ ~Quiet
  /\ http' = NoRequest
  /\ call' = NoCall
  /\ UNCHANGED <<jobs, nextId, companies, creating, users, applications>>

(***************************************************************************)
(* Specifications.                                                         *)
(***************************************************************************)
Init ==
  /\ jobs = {}
  /\ nextId = 1
  /\ companies = {}
  /\ call = NoCall
  /\ creating = NoCreating
  /\ users = {}
  /\ applications = {}
  /\ http = NoRequest

Next ==
  \/ JobCreate
  \/ JobFindAll
  \/ JobFindByCriteria
  \/ JobGet
  \/ JobUpdate
  \/ JobRemove
  \/ CompanyCreate
  \/ CompanyFindAll
  \/ CompanyFindByCriteria
  \/ CompanyGet
  \/ CompanyUpdate
  \/ CompanyRemove
  \/ Settle

Spec == Init /\ [][Next]_vars

\* the tables a run of the listing operations starts from: any jobs table
\* of up to MaxJobId rows, or any companies table over the known handles
JobData ==
  [title : {Str(t) : t \in JobTitles}, salary : {Num(n) : n \in JobSalaries},
   equity : JobEquities]
CompanyData ==
  [name : {Str(n) : n \in CompanyNames}, num_employees : CompanySizes]

JobTables ==
  {{[id |-> Num(i), title |-> f[i][2].title, salary |-> f[i][2].salary,
     equity |-> f[i][2].equity, company_handle |-> Str(<<"c", "1">>)]
      : i \in {j \in 1..MaxJobId : f[j][1]}}
    : f \in [1..MaxJobId -> BOOLEAN \X JobData]}

CompanyTables ==
  {{[handle |-> Str(h), name |-> f[h][2].name, description |-> NoText,
     num_employees |-> f[h][2].num_employees, logo_url |-> Null]
      : h \in {g \in Handles : f[g][1]}}
    : f \in [Handles -> BOOLEAN \X CompanyData]}

InitFind ==
  /\ \/ jobs \in JobTables /\ companies = {}
     \/ jobs = {} /\ companies \in CompanyTables
  /\ nextId = MaxJobId + 1
  /\ call = NoCall
  /\ creating = NoCreating
  /\ users = {}
  /\ applications = {}
  /\ http = NoRequest

NextFind ==
  \/ JobFindAll
  \/ JobFindByCriteria
  \/ CompanyFindAll
  \/ CompanyFindByCriteria
  \/ Settle

SpecFind == InitFind /\ [][NextFind]_vars

\* two calls of Company.create for one handle, both about to start
InitRace ==
  /\ jobs = {}
  /\ nextId = 1
  /\ companies \in CompanyTables
  /\ call = NoCall
  /\ \E f \in [Sessions -> CompanyInputs] :
       /\ \A p1, p2 \in Sessions : f[p1].handle = f[p2].handle
       /\ creating = [p \in Sessions |->
                        [pc |-> "check", arg |-> f[p], err |-> "none",
                         res |-> <<>>]]
  /\ users = {}
  /\ applications = {}
  /\ http = NoRequest

NextRace == \E p \in Sessions : CreateCheck(p) \/ CreateInsert(p)

SpecRace == InitRace /\ [][NextRace]_vars

\* the tables after commonBeforeAll, within the bounds of the model
InitRoutes ==
  /\ jobs = {[id |-> Num(1), title |-> Str(<<"J", "1">>), salary |-> Num(2),
              equity |-> Num(1), company_handle |-> Str(<<"c", "1">>)]}
  /\ nextId = 2
  /\ companies = {CompanyRow(d) : d \in {c \in CompanyInputs :
                                           c.name = Str(<<"C", "1">>)}}
  /\ call = NoCall
  /\ creating = NoCreating
  /\ users = FixtureUsers
  /\ applications = {}
  /\ http = NoRequest

NextRoutes ==
  \/ PostUserJob
  \/ GetUser
  \/ PatchUser
  \/ DeleteUser
  \/ Respond

SpecRoutes == InitRoutes /\ [][NextRoutes]_vars

(***************************************************************************)
(* Properties of sqlForPartialUpdate.                                      *)
(***************************************************************************)
SqlDone == call.op = "sqlForPartialUpdate" /\ call.err # "pending"
SqlData == call.arg.data
SqlOut == call.res

\* the tokens of the i-th clause of a ", "-joined clause string
ClauseAt(setCols, i) == SubSeq(setCols, 4 * i - 3, 4 * i - 1)
ClauseCount(setCols) ==
  IF setCols = <<>> THEN 0
  ELSE Cardinality({i \in 1..Len(setCols) : setCols[i] = Comma}) + 1
Placeholders(toks) ==
  LET IsPh(t) == t.k = "ph"
      phs == SelectSeq(toks, IsPh)
  IN  [i \in 1..Len(phs) |-> phs[i].n]

\* C1: for a non-empty update mapping and any translation table the value
\* list is as long as the number of clauses of setCols, the i-th clause
\* carries placeholder $i, and the i-th value is the value of the i-th key
\* of the mapping in insertion order.
C1_PlaceholdersAlignWithValues ==
  (SqlDone /\ Len(SqlData) > 0 /\ call.arg.tabled) =>
    /\ call.err = "none"
    /\ Len(SqlOut.values) = ClauseCount(SqlOut.setCols)
    /\ Len(SqlOut.values) = Len(SqlData)
    /\ \A i \in 1..Len(SqlData) :
         /\ Placeholders(ClauseAt(SqlOut.setCols, i)) = <<i>>
         /\ SqlOut.values[i] = SqlData[i][2]
    /\ Placeholders(SqlOut.setCols) = [i \in 1..Len(SqlData) |-> i]

C1_Witness ==
  /\ SqlDone
  /\ call.err = "none"
  /\ Len(SqlOut.values) = 2
  /\ SqlOut.values[1] # SqlOut.values[2]

\* C2: an empty update mapping always fails with BadRequestError, with or
\* without a translation table, and yields no clause string or value list.
C2_EmptyMappingIsBadRequest ==
  (SqlDone /\ SqlData = <<>>) =>
    /\ call.err = "BadRequestError"
    /\ SqlOut = NoUpdate

C2_Witness ==
  /\ SqlDone
  /\ SqlData = <<>>
  /\ ~call.arg.tabled
  /\ call.err = "BadRequestError"

\* the column the claim expects for a key
ExpectedColumn(jsToSql, key) ==
  IF key \in DOMAIN jsToSql THEN jsToSql[key] ELSE key

ExampleData == <<<<"firstName", Str(Aliya)>>, <<"age", Num(32)>>>>
ExampleTable == [x \in {"firstName"} |-> "first_name"]
ExampleSetCols ==
  <<QId("first_name"), Op("="), Ph(1), Comma, QId("age"), Op("="), Ph(2)>>

\* C3: the column of the clause emitted for a key is the table's entry for
\* the key when the table has one and the key itself otherwise; clauses read
\* "<column>"=$<position> and are joined with ", " in insertion order, so
\* {firstName:'Aliya', age:32} with {firstName:'first_name'} gives
\* "first_name"=$1, "age"=$2.
C3_ColumnTranslation ==
  (SqlDone /\ Len(SqlData) > 0 /\ call.arg.tabled) =>
    LET n == Len(SqlData)
        sc == SqlOut.setCols
    IN  /\ Len(sc) = 4 * n - 1
        /\ \A i \in 1..n :
             /\ sc[4 * i - 3] =
                  QId(ExpectedColumn(call.arg.jsToSql, SqlData[i][1]))
             /\ sc[4 * i - 2] = Op("=")
             /\ sc[4 * i - 1] = Ph(i)
             /\ i < n => sc[4 * i] = Comma
        /\ (SqlData = ExampleData /\ call.arg.jsToSql = ExampleTable) =>
             /\ sc = ExampleSetCols
             /\ SqlOut.values = <<Str(Aliya), Num(32)>>

C3_Witness ==
  /\ SqlDone
  /\ SqlData = ExampleData
  /\ call.arg.jsToSql = ExampleTable
  /\ SqlOut.setCols = ExampleSetCols

(***************************************************************************)
(* Properties of the criteria queries.                                     *)
(***************************************************************************)
JobFind == call.op = "Job.findByCriteria"
CompanyFind == call.op = "Company.findByCriteria"
Queried == (JobFind \/ CompanyFind) /\ call.nq > 0

\* a filter counts as given when its value is truthy; the equity flag when
\* it is one of true, "true", false, "false"
Given(v) == Truthy(v)
WantsEquity(v) == v = Bool(TRUE) \/ v = StrTrue
WantsNoEquity(v) == v = Bool(FALSE) \/ v = StrFalse

Conds == SelectConds(call.q.sql)
NConds == Len(Conds) \div 4
UpTo(n) == [i \in 1..n |-> i]

\* the bind value a condition's filter contributes
OwnValue(c) ==
  CASE c.col.s = "title" -> Wildcard(call.arg.title)
    [] c.col.s = "salary" -> call.arg.minSalary
    [] c.col.s = "name" -> Wildcard(call.arg.name)
    [] c.col.s = "num_employees" /\ c.op.s = ">=" -> call.arg.minEmployees
    [] c.col.s = "num_employees" /\ c.op.s = "<=" -> call.arg.maxEmployees
    [] OTHER -> Undef

SlotCount ==
  IF JobFind
  THEN (IF Given(call.arg.title) THEN 1 ELSE 0)
       + (IF Given(call.arg.minSalary) THEN 1 ELSE 0)
  ELSE (IF Given(call.arg.name) THEN 1 ELSE 0)
       + (IF Given(call.arg.minEmployees) THEN 1 ELSE 0)
       + (IF Given(call.arg.maxEmployees) THEN 1 ELSE 0)

\* C4: in the statement of Job.findByCriteria and Company.findByCriteria the
\* placeholders are exactly $1..$k in order of appearance, k the number of
\* bind values; the i-th bind value is that of the filter whose clause
\* carries $i; the equity filter takes no slot and does not advance the
\* numbering.
C4_PlaceholdersTrackBinds ==
  Queried =>
    /\ Placeholders(call.q.sql) = UpTo(Len(call.q.binds))
    /\ Len(call.q.binds) = SlotCount
    /\ \A i \in 1..NConds :
         LET c == CondAt(Conds, i)
         IN  /\ c.col.s = "equity" => c.rhs.k = "lit"
             /\ c.col.s # "equity" =>
                  /\ c.rhs.k = "ph"
                  /\ c.rhs.n \in 1..Len(call.q.binds)
                  /\ call.q.binds[c.rhs.n] = OwnValue(c)

C4_Witness ==
  /\ JobFind
  /\ call.err = "none"
  /\ ~Given(call.arg.title)
  /\ WantsEquity(call.arg.hasEquity)
  /\ call.q.binds = <<Num(1)>>
  /\ Placeholders(call.q.sql) = <<1>>

\* the clause heads a filter set calls for, in the declared order
Heads(present, heads) ==
  LET idx == SelectSeq(UpTo(Len(heads)), LAMBDA i : present[i])
  IN  [i \in 1..Len(idx) |-> heads[idx[i]]]

ExpectedHeads ==
  IF JobFind
  THEN Heads(<<Given(call.arg.title), Given(call.arg.minSalary),
               WantsEquity(call.arg.hasEquity)
                 \/ WantsNoEquity(call.arg.hasEquity)>>,
             <<<<"title", "ILIKE">>, <<"salary", ">=">>,
               <<"equity",
                 IF WantsEquity(call.arg.hasEquity) THEN ">" ELSE "=">>>>)
  ELSE Heads(<<Given(call.arg.name), Given(call.arg.minEmployees),
               Given(call.arg.maxEmployees)>>,
             <<<<"name", "ILIKE">>, <<"num_employees", ">=">>,
               <<"num_employees", "<=">>>>)

Connectives ==
  LET IsConn(t) == t = Kw("WHERE") \/ t = Kw("AND")
      cs == SelectSeq(call.q.sql, IsConn)
  IN  [i \in 1..Len(cs) |-> cs[i].s]

\* C5: the filters given are appended in the fixed declared order, the
\* first one introduced by WHERE and every later one by AND: one WHERE when
\* a filter is given, neither WHERE nor AND when none is, never an AND
\* before the WHERE.
C5_WhereThenAnd ==
  Queried =>
    /\ NConds = Len(ExpectedHeads)
    /\ \A i \in 1..NConds :
         <<CondAt(Conds, i).col.s, CondAt(Conds, i).op.s>> = ExpectedHeads[i]
    /\ Connectives =
         [i \in 1..Len(ExpectedHeads) |-> IF i = 1 THEN "WHERE" ELSE "AND"]

C5_Witness ==
  /\ JobFind
  /\ call.err = "none"
  /\ ~Given(call.arg.title)
  /\ Given(call.arg.minSalary)
  /\ WantsNoEquity(call.arg.hasEquity)
  /\ Connectives = <<"WHERE", "AND">>

\* C6: Company.findByCriteria fails with BadRequestError, before building
\* any SQL or querying, when both bounds are given and the minimum exceeds
\* the maximum, and does not fail with BadRequestError otherwise.
C6_RangeValidation ==
  CompanyFind =>
    IF /\ Given(call.arg.minEmployees)
       /\ Given(call.arg.maxEmployees)
       /\ call.arg.minEmployees.n > call.arg.maxEmployees.n
    THEN call.err = "BadRequestError" /\ call.nq = 0 /\ call.q = NoQuery
    ELSE call.err # "BadRequestError" /\ call.nq = 1

C6_Witness ==
  /\ CompanyFind
  /\ call.arg.minEmployees = Num(2)
  /\ call.arg.maxEmployees = Num(1)
  /\ call.err = "BadRequestError"
  /\ call.nq = 0

\* s contains sub, letter case ignored
ContainsCI(s, sub) ==
  \E i \in 1..(Len(s) + 1) :
    /\ i + Len(sub) - 1 <= Len(s)
    /\ LowerStr(SubSeq(s, i, i + Len(sub) - 1)) = LowerStr(sub)

JobSatisfies(r, f) ==
  /\ Given(f.title) => ContainsCI(r.title.s, f.title.s)
  /\ Given(f.minSalary) => (r.salary.t = "num" /\ r.salary.n >= f.minSalary.n)
  /\ WantsEquity(f.hasEquity) => (r.equity.t = "num" /\ r.equity.n > 0)
  /\ WantsNoEquity(f.hasEquity) => (r.equity.t = "num" /\ r.equity.n = 0)

ResultSet == {call.res[i] : i \in 1..Len(call.res)}

\* C7: for every table and filter set Job.findByCriteria returns exactly the
\* jobs that satisfy every filter given (title contains the text, case
\* ignored; salary >= minSalary; equity > 0 for hasEquity true, equity = 0
\* for false), an empty result being an empty list and not an error.
C7_ExactlyTheMatchingJobs ==
  JobFind =>
    /\ call.err = "none"
    /\ ResultSet = {JobView(r) : r \in {x \in jobs : JobSatisfies(x, call.arg)}}
    /\ Len(call.res) = Cardinality(ResultSet)

\* what does hold: the same for title filters free of the pattern
\* characters % and _
PlainText(v) == \A i \in 1..Len(v.s) : v.s[i] \notin {"%", "_"}

C7_MatchingJobsForPlainText ==
  (JobFind /\ PlainText(call.arg.title)) =>
    /\ call.err = "none"
    /\ ResultSet = {JobView(r) : r \in {x \in jobs : JobSatisfies(x, call.arg)}}
    /\ Len(call.res) = Cardinality(ResultSet)

NoFilters ==
  IF JobFind
  THEN call.arg = [title |-> Undef, minSalary |-> Undef, hasEquity |-> Undef]
  ELSE call.arg = [name |-> Undef, minEmployees |-> Undef,
                   maxEmployees |-> Undef]

SortKey(v) == IF JobFind THEN v.title ELSE v.name
Ascending ==
  \A i, j \in 1..Len(call.res) :
    i < j => SortKeyLeq(SortKey(call.res[i]), SortKey(call.res[j]))

\* the orders findAll may return the table in, cut down to the rows of
\* the result
FindAllOrders ==
  IF JobFind
  THEN {LET o == SelectSeq(JobViews(f), LAMBDA v : v \in ResultSet)
        IN  o : f \in RowOrders(jobs, JobSelect \o OrderByTitle)}
  ELSE {LET o == SelectSeq([i \in 1..Len(f) |-> CompanyView(f[i])],
                           LAMBDA v : v \in ResultSet)
        IN  o : f \in RowOrders(companies, CompanySelect \o OrderByName)}

\* C8: with no filters the statement has no WHERE and no bind values and
\* every row of the table is returned; for every filter set the statement
\* ends with ORDER BY title (jobs) or ORDER BY name (companies), so the rows
\* come in ascending order of that key, the order findAll returns them in.
C8_OrderedLikeFindAll ==
  (Queried /\ call.err = "none") =>
    /\ SubSeq(call.q.sql, Len(call.q.sql) - 1, Len(call.q.sql)) =
         (IF JobFind THEN <<Kw("ORDER BY"), Id("title")>>
          ELSE <<Kw("ORDER BY"), Id("name")>>)
    /\ Ascending
    /\ call.res \in FindAllOrders
    /\ NoFilters =>
         /\ Connectives = <<>>
         /\ call.q.binds = <<>>
         /\ ResultSet = (IF JobFind THEN {JobView(r) : r \in jobs}
                         ELSE {CompanyView(r) : r \in companies})
         /\ Len(call.res) = (IF JobFind THEN Cardinality(jobs)
                              ELSE Cardinality(companies))

C8_Witness ==
  /\ JobFind
  /\ NoFilters
  /\ Len(call.res) = 2
  /\ call.res[1].title # call.res[2].title
  /\ call.res[1].id = Num(2)

EquityConds == {i \in 1..NConds : CondAt(Conds, i).col.s = "equity"}

\* C9: the equity filter of Job.findByCriteria is tri-state: true or "true"
\* adds equity > 0, false or "false" adds equity = 0, anything else adds no
\* equity clause; the bind values are those of the other filters alone and
\* at most one equity clause is emitted.
C9_EquityTriState ==
  JobFind =>
    /\ Cardinality(EquityConds) <= 1
    /\ \A i \in EquityConds :
         /\ CondAt(Conds, i).rhs = Lit(0)
         /\ CondAt(Conds, i).op.s \in {">", "="}
         /\ CondAt(Conds, i).op.s = ">" <=> WantsEquity(call.arg.hasEquity)
         /\ CondAt(Conds, i).op.s = "=" <=> WantsNoEquity(call.arg.hasEquity)
    /\ EquityConds # {} <=>
         (WantsEquity(call.arg.hasEquity) \/ WantsNoEquity(call.arg.hasEquity))
    /\ call.q.binds =
         (IF Given(call.arg.title) THEN <<Wildcard(call.arg.title)>> ELSE <<>>)
         \o (IF Given(call.arg.minSalary) THEN <<call.arg.minSalary>>
             ELSE <<>>)

C9_Witness ==
  /\ JobFind
  /\ call.arg.hasEquity = StrFalse
  /\ Given(call.arg.minSalary)
  /\ \E i \in EquityConds : CondAt(Conds, i).op.s = "="
  /\ Len(call.q.binds) = 1

(***************************************************************************)
(* Properties of get, update and remove.                                   *)
(***************************************************************************)
JobKeys == {r.id : r \in jobs}
CompanyKeys == {r.handle : r \in companies}

\* the call made by a step: its operation and the key it names
StepOp == call'.op
StepKey ==
  IF StepOp \in {"Job.update", "Company.update"} THEN call'.arg.key
  ELSE call'.arg

MissingKeyStep ==
  /\ Idle
  /\ \/ /\ StepOp \in {"Job.get", "Job.remove"}
        /\ StepKey \notin JobKeys
     \/ /\ StepOp = "Job.update"
        /\ StepKey \notin JobKeys
        /\ call'.arg.data # <<>>
     \/ /\ StepOp \in {"Company.get", "Company.remove"}
        /\ StepKey \notin CompanyKeys
     \/ /\ StepOp = "Company.update"
        /\ StepKey \notin CompanyKeys
        /\ call'.arg.data # <<>>

\* C10: for jobs and for companies, get, update with a non-empty payload
\* and remove of an id or handle that is not in the table fail with
\* NotFoundError and leave the tables as they were.
C10_MissingKeyIsNotFound ==
  [][MissingKeyStep =>
       /\ call'.err = "NotFoundError"
       /\ jobs' = jobs
       /\ companies' = companies
       /\ nextId' = nextId]_vars

C10_Witness ==
  /\ call.op = "Company.update"
  /\ call.err = "NotFoundError"
  /\ call.arg.key \notin CompanyKeys
  /\ Len(call.arg.data) = 2
  /\ companies # {}
  /\ jobs # {}

(***************************************************************************)
(* Properties of create and update.                                        *)
(***************************************************************************)
UniqueHandles ==
  \A r1, r2 \in companies : r1.handle = r2.handle => r1 = r2

DuplicateCreateStep ==
  /\ Idle
  /\ StepOp = "Company.create"
  /\ call'.arg.handle \in CompanyKeys

\* C11: Company.create with a handle that is already in the table fails
\* with BadRequestError, inserts nothing and leaves the existing row as it
\* was; after any sequence of create, update and remove calls no two
\* companies share a handle.
C11_DuplicateHandleRejected ==
  /\ []UniqueHandles
  /\ [][DuplicateCreateStep =>
          /\ call'.err = "BadRequestError"
          /\ call'.nq = 1
          /\ companies' = companies]_vars

C11_Witness ==
  /\ call.op = "Company.create"
  /\ call.err = "BadRequestError"
  /\ \E r \in companies :
       r.handle = call.arg.handle /\ r.name # call.arg.name
  /\ Cardinality(companies) = 2

\* the column a payload field is stored in
FieldColumn(field) ==
  CASE field = "companyHandle" -> "company_handle"
    [] field = "numEmployees" -> "num_employees"
    [] field = "logoUrl" -> "logo_url"
    [] OTHER -> field

\* row with exactly the fields of the payload replaced
Patched(row, data) ==
  [c \in DOMAIN row |->
     IF \E i \in 1..Len(data) : FieldColumn(data[i][1]) = c
     THEN data[CHOOSE i \in 1..Len(data) : FieldColumn(data[i][1]) = c][2]
     ELSE row[c]]

UpdatedStep ==
  /\ Idle
  /\ StepOp \in {"Job.update", "Company.update"}
  /\ call'.err = "none"

\* C12: a successful Job.update(id, data) or Company.update(handle, data)
\* changes exactly the fields named in data on the one row of that id or
\* handle, leaves its other fields and every other row as they were, does
\* not change the row's id or handle, and returns the row as updated.
C12_PartialUpdateFrame ==
  [][UpdatedStep =>
       IF StepOp = "Job.update"
       THEN /\ \E old \in jobs :
                 /\ old.id = StepKey
                 /\ jobs' = (jobs \ {old}) \cup {Patched(old, call'.arg.data)}
                 /\ Patched(old, call'.arg.data).id = StepKey
                 /\ call'.res = <<JobView(Patched(old, call'.arg.data))>>
            /\ companies' = companies
            /\ nextId' = nextId
       ELSE /\ \E old \in companies :
                 /\ old.handle = StepKey
                 /\ companies' =
                      (companies \ {old}) \cup {Patched(old, call'.arg.data)}
                 /\ Patched(old, call'.arg.data).handle = StepKey
                 /\ call'.res = <<CompanyView(Patched(old, call'.arg.data))>>
            /\ jobs' = jobs
            /\ nextId' = nextId]_vars

C12_Witness ==
  /\ call.op = "Job.update"
  /\ call.err = "none"
  /\ call.arg.key = Num(2)
  /\ Len(call.arg.data) = 2
  /\ call.res[1].companyHandle = Str(<<"c", "2">>)
  /\ \E r \in jobs :
       r.id = Num(1) /\ r.company_handle = Str(<<"c", "1">>)
                     /\ r.equity = Num(1)

EmptyUpdate ==
  /\ call.op \in {"Job.update", "Company.update"}
  /\ call.arg.data = <<>>

\* C13: Job.update and Company.update with an empty data object fail with
\* BadRequestError before any database query, leave the tables as they
\* were, and do so whether or not the id or handle exists.
C13_EmptyUpdateIsBadRequest ==
  /\ [](EmptyUpdate =>
          /\ call.err = "BadRequestError"
          /\ call.nq = 0
          /\ call.q = NoQuery)
  /\ [][(Idle /\ StepOp \in {"Job.update", "Company.update"}
              /\ call'.arg.data = <<>>) =>
          /\ jobs' = jobs
          /\ companies' = companies
          /\ nextId' = nextId]_vars

C13_Witness ==
  /\ EmptyUpdate
  /\ call.op = "Company.update"
  /\ call.err = "BadRequestError"
  /\ call.arg.key \notin CompanyKeys
  /\ companies # {}

C13_WitnessExisting ==
  /\ EmptyUpdate
  /\ call.op = "Job.update"
  /\ call.err = "BadRequestError"
  /\ call.arg.key \in JobKeys

(***************************************************************************)
(* Falsy filter values.                                                    *)
(***************************************************************************)
\* passed explicitly, yet falsy: the number 0 or the empty string
FalsyGiven(v) == v # Undef /\ ~Truthy(v)

HasCond(col, op) ==
  \E i \in 1..NConds :
    CondAt(Conds, i).col.s = col /\ CondAt(Conds, i).op.s = op

FalsyFilters ==
  IF JobFind
  THEN {c \in {<<"title", "ILIKE", call.arg.title>>,
               <<"salary", ">=", call.arg.minSalary>>} : FalsyGiven(c[3])}
  ELSE {c \in {<<"name", "ILIKE", call.arg.name>>,
               <<"num_employees", ">=", call.arg.minEmployees>>,
               <<"num_employees", "<=", call.arg.maxEmployees>>} :
          FalsyGiven(c[3])}

\* C15: in Job.findByCriteria and Company.findByCriteria a text or numeric
\* filter passed as 0 or as the empty string is treated as not provided: it
\* emits no clause, takes no bind slot, does not count as the first filter
\* for the WHERE / AND of later ones, and for companies does not trigger
\* the minimum-exceeds-maximum rejection.
C15_FalsyIsNotProvided ==
  ((JobFind \/ CompanyFind) /\ FalsyFilters # {}) =>
    /\ (CompanyFind /\ (\/ FalsyGiven(call.arg.minEmployees)
                        \/ FalsyGiven(call.arg.maxEmployees)))
         => call.err # "BadRequestError"
    /\ call.err # "BadRequestError" =>
         /\ call.nq = 1
         /\ \A c \in FalsyFilters : ~HasCond(c[1], c[2])
         /\ Len(call.q.binds) = SlotCount
         /\ \A i \in 1..Len(call.q.binds) : Truthy(call.q.binds[i])
         /\ Connectives =
              [i \in 1..NConds |-> IF i = 1 THEN "WHERE" ELSE "AND"]

C15_Witness ==
  /\ JobFind
  /\ call.arg.title = Str(<<>>)
  /\ call.arg.minSalary = Num(0)
  /\ call.arg.hasEquity = Bool(FALSE)
  /\ Connectives = <<"WHERE">>
  /\ call.q.binds = <<>>

C15_WitnessCompany ==
  /\ CompanyFind
  /\ call.arg.minEmployees = Num(2)
  /\ call.arg.maxEmployees = Num(0)
  /\ call.err = "none"
  /\ Connectives = <<"WHERE">>

(***************************************************************************)
(* Purity of the helper.                                                   *)
(***************************************************************************)
SqlStep == call.op = "sqlForPartialUpdate" /\ call.err = "pending"

RemovedJobIds == {Num(i) : i \in 1..(nextId - 1)} \ JobKeys

RemovedStep ==
  Idle /\ StepOp \in {"Job.remove", "Company.remove"} /\ call'.err = "none"

\* a successful remove deletes exactly the row of its key
RemoveFrame ==
  [][RemovedStep =>
       IF StepOp = "Job.remove"
       THEN /\ \E old \in jobs : old.id = StepKey /\ jobs' = jobs \ {old}
            /\ StepKey \notin {r.id : r \in jobs'}
            /\ companies' = companies /\ nextId' = nextId
       ELSE /\ \E old \in companies :
                 old.handle = StepKey /\ companies' = companies \ {old}
            /\ StepKey \notin {r.handle : r \in companies'}
            /\ jobs' = jobs /\ nextId' = nextId]_vars

\* a key that is absent becomes present only through create
OnlyCreateRevives ==
  [][/\ RemovedJobIds \subseteq RemovedJobIds'
     /\ (\E h \in CompanyHandles :
           h \notin CompanyKeys /\ h \in {r.handle : r \in companies'})
          => StepOp = "Company.create"]_vars

LaterJobStep ==
  /\ Idle
  /\ StepOp \in {"Job.get", "Job.update", "Job.remove"}
  /\ StepKey \in RemovedJobIds

LaterCompanyStep ==
  /\ Idle
  /\ StepOp \in {"Company.get", "Company.update", "Company.remove"}
  /\ StepKey \notin CompanyKeys

EmptyPayloadStep ==
  StepOp \in {"Job.update", "Company.update"} /\ call'.arg.data = <<>>

\* C19 as stated, for jobs: a successful remove deletes exactly its row, and
\* every later get, update or remove of a removed job id fails with
\* NotFoundError.
C19_RemovedKeyAlwaysNotFound ==
  /\ RemoveFrame
  /\ [][LaterJobStep => call'.err = "NotFoundError"]_vars

\* C19 (amended): after Job.remove(id) or Company.remove(handle) succeeds
\* the row is absent and every other row is unchanged; until a row with
\* that key is created again, every later get or remove of the key, and
\* every later update of it with a non-empty payload, fails with
\* NotFoundError and changes nothing, while an update with an empty payload
\* fails with BadRequestError; a removed job id never comes back.
C19_RemovedKeyNotFoundUnlessEmptyUpdate ==
  /\ RemoveFrame
  /\ OnlyCreateRevives
  /\ [][(LaterJobStep \/ LaterCompanyStep) =>
          /\ call'.err = IF EmptyPayloadStep THEN "BadRequestError"
                         ELSE "NotFoundError"
          /\ jobs' = jobs /\ companies' = companies
          /\ nextId' = nextId]_vars

\* the second remove of the same id, other jobs still stored
C19_Witness ==
  /\ call.op = "Job.remove"
  /\ call.err = "NotFoundError"
  /\ call.arg \in RemovedJobIds
  /\ jobs # {}

(***************************************************************************)
(* Two Company.create calls side by side.                                  *)
(***************************************************************************)
Created == {p \in DOMAIN creating : creating[p].pc = "done"
                                     /\ creating[p].err = "none"}

\* C18: under every interleaving of two Company.create calls for the same
\* handle, once both are over at most one has inserted a row and returned
\* the company, and every call that did not fails with BadRequestError.
C18_OneCreatesOtherBadRequest ==
  (\A p \in DOMAIN creating : creating[p].pc = "done") =>
    /\ Cardinality(Created) <= 1
    /\ \A p \in DOMAIN creating \ Created :
         creating[p].err = "BadRequestError"

(***************************************************************************)
(* Authorization on the users routes.                                      *)
(***************************************************************************)
SelfOrAdminRoutes ==
  {"POST /users/:username/jobs/:id", "GET /users/:username",
   "PATCH /users/:username", "DELETE /users/:username"}

RouteOp(route) ==
  CASE route = "POST /users/:username/jobs/:id" -> "User.apply"
    [] route = "GET /users/:username" -> "User.get"
    [] route = "PATCH /users/:username" -> "User.update"
    [] route = "DELETE /users/:username" -> "User.remove"
    [] OTHER -> "none"

\* the request comes from an admin or from the user it names
Entitled(r) == r.caller.isAdmin \/ r.caller.username = r.username

\* a logged-in caller who is neither
Stranger(r) ==
  /\ r.route \in SelfOrAdminRoutes
  /\ r.caller # NoUser
  /\ ~Entitled(r)

\* C14: on each self-or-admin user route a logged-in caller who is neither
\* an admin nor the user named in the path, and whose request body is
\* well-formed, is answered with HTTP 401.
C14_StrangerGets401 ==
  (Stranger(http) /\ http.body # "invalid") => http.status = 401

\* C17: on the self-or-admin user routes the User model operation of the
\* route (apply, get, update, remove) runs only when the caller is an admin
\* or is the user named in the path; a request by any other caller runs no
\* model operation and leaves users and applications unchanged.
C17_ModelRunsOnlyForSelfOrAdmin ==
  /\ [](http.route \in SelfOrAdminRoutes /\ call.op # "none" =>
          /\ http.caller # NoUser
          /\ Entitled(http)
          /\ call.op = RouteOp(http.route))
  /\ [][(Quiet /\ http'.route \in SelfOrAdminRoutes /\ ~Entitled(http')) =>
          /\ call'.op = "none"
          /\ users' = users
          /\ applications' = applications]_vars

\* u1 asks to delete u3, who stays registered
C17_Witness ==
  /\ http.route = "DELETE /users/:username"
  /\ http.caller.username = "u1"
  /\ http.username = "u3"
  /\ http.status = 401
  /\ call.op = "none"
  /\ \E u \in users : u.username = "u3"

\* u1 deletes their own account
C17_WitnessSelf ==
  /\ http.route = "DELETE /users/:username"
  /\ http.caller.username = "u1"
  /\ http.username = "u1"
  /\ http.status = 200
  /\ call.op = "User.remove"
  /\ ~\E u \in users : u.username = "u1"

====
